---- MODULE Spec2Model ----
(***************************************************************************)
(* Verification model of the SmartCard backend: the similarity layer       *)
(* (Backend/Services/similarityService.py) and the PDF session pipeline    *)
(* (Api/sessionRoutes.py, create_session_with_pdf).                        *)
(*                                                                         *)
(* Reading conventions.  The source misspells many identifiers (for        *)
(* instance questions_ocount, qustion_count, theme_date, sotrage,          *)
(* Execption, calculate_keyword_ooverlap vs calculate_keyword_overlap).    *)
(* An identifier that resolves to nothing is read as the name it evidently *)
(* stands for; everything that does execute is modelled as written: the    *)
(* control flow, the data flow, the commit points, the string constants    *)
(* ("QUIZZ"), the enum members, and the value a function returns           *)
(* (preprocess_text returns the unfiltered list).                          *)
(*                                                                         *)
(* Scores are Python floats k/n with small k, n; they are modelled as      *)
(* reduced fractions <<k, n>>, compared by cross-multiplication.           *)
(***************************************************************************)
EXTENDS Integers, Sequences, FiniteSets, TLC

(***************************************************************************)
(* Bounds of the model                                                     *)
(***************************************************************************)
MaxKw == 2
MaxHarnessThemes == 2
MaxTextLen == 2
MaxHarnessQuestions == 2
MaxRequests == 2
MaxGenerated == 2
MaxServiceQuestions == 1
MaxThemeRequests == 1
MaxSessionOps == 3
MaxSessions == 1
MaxAnswers == 1
MaxProcs == 2
MaxSimKw == 3
MaxSimPairText == 2
MaxSimText == 3

(***************************************************************************)
(* Generic helpers                                                         *)
(***************************************************************************)
RECURSIVE GCD(_, _)
GCD(a, b) == IF b = 0 THEN a ELSE GCD(b, a % b)

\* Python float division k / n of two small naturals, n > 0
Div(k, n) == LET g == GCD(k, n) IN <<k \div g, n \div g>>

Zero == <<0, 1>>

Geq(a, b) == a[1] * b[2] >= b[1] * a[2]
Gt(a, b) == a[1] * b[2] > b[1] * a[2]

Min(a, b) == IF a <= b THEN a ELSE b

Range(s) == {s[i] : i \in 1..Len(s)}

SeqsUpTo(S, n) == UNION {[1..k -> S] : k \in 0..n}

\* the elements of seq at the positions in S, in the order of seq
Pick(seq, S) ==
    [i \in 1..Cardinality(S) |->
        seq[CHOOSE k \in S : Cardinality({j \in S : j < k}) = i - 1]]

\* the subsequences of seq of length at most n
Subseqs(seq, n) ==
    {Pick(seq, S) : S \in {T \in SUBSET (1..Len(seq)) : Cardinality(T) <= n}}

\* Python slice s[:n] for n >= 0
Take(s, n) == SubSeq(s, 1, Min(n, Len(s)))

RECURSIVE Flatten(_)
Flatten(ss) == IF ss = <<>> THEN <<>> ELSE Head(ss) \o Flatten(Tail(ss))

(***************************************************************************)
(* Keywords and texts                                                      *)
(***************************************************************************)
RawKeywords == <<"python", " Python", "flask", "api">>

\* k.lower().strip() on the keyword vocabulary
LowerStrip(k) == CASE k = " Python" -> "python"
                   [] k = "École " -> "école"
                   [] OTHER -> k

\* A text is a sequence of whitespace-separated chunks.
RawChunks == <<"Flask", "the", "api">>

STOP_WORDS ==
    {"le", "la", "les", "un", "une", "des", "de", "du", "et", "ou", "mais",
     "donc", "or", "ni", "car", "ce", "ces", "mon", "ton", "son", "ma", "ta",
     "sa", "mes", "tes", "ses", "notre", "votre", "leur", "nos", "vos", "leurs",
     "qui", "que", "quoi", "dont", "où", "dans", "sur", "sous", "avec", "sans",
     "pour", "par", "est", "sont", "être", "avoir", "il", "elle", "on", "nous",
     "vous", "ils", "elles", "je", "tu", "à", "au", "aux", "en", "y", "plus",
     "the", "a", "an", "and", "but", "in", "at", "to", "for",
     "of", "with", "by", "from", "is", "are", "was", "were", "be", "been",
     "being", "have", "has", "had", "do", "does", "did", "will", "would",
     "should", "could", "may", "might", "must", "can", "it", "this", "that",
     "these", "those", "i", "you", "he", "she", "we", "they", "what", "which",
     "who", "when", "where", "why", "how"}

\* length of a token, for the len(w) > 2 filter
TokenLen(w) == CASE w = "flask" -> 5 [] w = "the" -> 3 [] w = "api" -> 3
                 [] w = "python" -> 6 [] w = "web" -> 3 [] w = "a" -> 1
                 [] w = "e" -> 1 [] w = "école" -> 5 [] w = "de" -> 2
                 [] OTHER -> 4

\* text.lower(), re.sub(r'[^a-zà-ÿ0-9\s]', ' ', text) and split() on one chunk
Tokenize(chunk) == CASE chunk = "Flask" -> <<"flask">>
                     [] chunk = "École" -> <<"école">>
                     [] chunk = "API," -> <<"api">>
                     [] chunk = "e-mail" -> <<"e", "mail">>
                     [] chunk = "--" -> <<>>
                     [] OTHER -> <<chunk>>

preprocess_text(text) ==
    LET words == Flatten([i \in 1..Len(text) |-> Tokenize(text[i])])
        word == SelectSeq(words, LAMBDA w : w \notin STOP_WORDS /\ TokenLen(w) > 2)
    IN  words

\* the distinct elements of s in order of first occurrence
RECURSIVE Distinct(_, _)
Distinct(s, seen) ==
    IF s = <<>> THEN <<>>
    ELSE IF Head(s) \in seen THEN Distinct(Tail(s), seen)
         ELSE <<Head(s)>> \o Distinct(Tail(s), seen \cup {Head(s)})

Count(s, w) == Cardinality({i \in 1..Len(s) : s[i] = w})

\* list.sort(key=..., reverse=True) and Counter.most_common: a stable sort in
\* descending key order (elements of equal key keep their original order).
\* The sorted sequences hold pairs <<key, item>>, the key a fraction.
\* InsertDesc puts x behind every element whose key is >= the key of x.
\* InsertDesc with the ties put in front: an unstable descending sort
RECURSIVE InsertDesc_TiesFirst(_, _)
InsertDesc_TiesFirst(sorted, x) ==
    IF sorted = <<>> THEN <<x>>
    ELSE IF Gt(Head(sorted)[1], x[1])
         THEN <<Head(sorted)>> \o InsertDesc_TiesFirst(Tail(sorted), x)
         ELSE <<x>> \o sorted

RECURSIVE InsertDesc(_, _)
InsertDesc(sorted, x) ==
    IF sorted = <<>> THEN <<x>>
    ELSE IF Geq(Head(sorted)[1], x[1]) THEN <<Head(sorted)>> \o InsertDesc(Tail(sorted), x)
         ELSE <<x>> \o sorted

RECURSIVE SortDescFrom(_, _)
SortDescFrom(sorted, rest) ==
    IF rest = <<>> THEN sorted
    ELSE SortDescFrom(InsertDesc(sorted, Head(rest)), Tail(rest))

SortDesc(keyed) == SortDescFrom(<<>>, keyed)

\* extract_keywords that returns every word, whatever top_n
extract_keywords_AllWords(text, top_n) ==
    LET words == preprocess_text(text)
        word_counts == Distinct(words, {})
        top_words == SortDesc([i \in 1..Len(word_counts) |->
                            <<<<Count(words, word_counts[i]), 1>>, word_counts[i]>>])
    IN  IF words = <<>> THEN <<>> ELSE [i \in 1..Len(top_words) |-> top_words[i][2]]

extract_keywords(text, top_n) ==
    LET words == preprocess_text(text)
        word_counts == Distinct(words, {})
        top_words == Take(SortDesc([i \in 1..Len(word_counts) |->
                            <<<<Count(words, word_counts[i]), 1>>, word_counts[i]>>]), top_n)
    IN  IF words = <<>> THEN <<>> ELSE [i \in 1..Len(top_words) |-> top_words[i][2]]

\* calculate_text_similarity that answers 1.0 for two equal keyword sets
\* before it looks for an empty one
calculate_text_similarity_EqualFirst(text1, text2) ==
    LET keywords1 == Range(extract_keywords(text1, 30))
        keywords2 == Range(extract_keywords(text2, 30))
        intersection == keywords1 \cap keywords2
        union == keywords1 \cup keywords2
    IN  IF keywords1 = keywords2 THEN <<1, 1>>
        ELSE IF keywords1 = {} \/ keywords2 = {} THEN Zero
        ELSE Div(Cardinality(intersection), Cardinality(union))

\* calculate_text_similarity that divides by the size of the first keyword set
calculate_text_similarity_FirstSize(text1, text2) ==
    LET keywords1 == Range(extract_keywords(text1, 30))
        keywords2 == Range(extract_keywords(text2, 30))
        intersection == keywords1 \cap keywords2
    IN  IF keywords1 = {} \/ keywords2 = {} THEN Zero
        ELSE Div(Cardinality(intersection), Cardinality(keywords1))

calculate_text_similarity(text1, text2) ==
    LET keywords1 == Range(extract_keywords(text1, 30))
        keywords2 == Range(extract_keywords(text2, 30))
        intersection == keywords1 \cap keywords2
        union == keywords1 \cup keywords2
    IN  IF keywords1 = {} \/ keywords2 = {} THEN Zero
        ELSE IF Cardinality(union) = 0 THEN Zero
        ELSE Div(Cardinality(intersection), Cardinality(union))

\* calculate_keyword_overlap that divides by the length of the shorter list
calculate_keyword_overlap_ListSize(text_keywords, target_keywords) ==
    LET set1 == {LowerStrip(k) : k \in Range(text_keywords)}
        set2 == {LowerStrip(k) : k \in Range(target_keywords)}
        intersection == set1 \cap set2
        min_size == Min(Len(text_keywords), Len(target_keywords))
    IN  IF text_keywords = <<>> \/ target_keywords = <<>> THEN Zero
        ELSE IF min_size = 0 THEN Zero
        ELSE Div(Cardinality(intersection), min_size)

\* calculate_keyword_overlap that divides by the size of the larger set
calculate_keyword_overlap_MaxSize(text_keywords, target_keywords) ==
    LET set1 == {LowerStrip(k) : k \in Range(text_keywords)}
        set2 == {LowerStrip(k) : k \in Range(target_keywords)}
        intersection == set1 \cap set2
        max_size == IF Cardinality(set1) >= Cardinality(set2)
                    THEN Cardinality(set1) ELSE Cardinality(set2)
    IN  IF text_keywords = <<>> \/ target_keywords = <<>> THEN Zero
        ELSE Div(Cardinality(intersection), max_size)

calculate_keyword_overlap(text_keywords, target_keywords) ==
    LET set1 == {LowerStrip(k) : k \in Range(text_keywords)}
        set2 == {LowerStrip(k) : k \in Range(target_keywords)}
        intersection == set1 \cap set2
        min_size == Min(Cardinality(set1), Cardinality(set2))
    IN  IF text_keywords = <<>> \/ target_keywords = <<>> THEN Zero
        ELSE IF min_size = 0 THEN Zero
        ELSE Div(Cardinality(intersection), min_size)

(***************************************************************************)
(* Matching against questions and themes                                   *)
(***************************************************************************)
\* Python None is the empty sequence, a value v is <<v>>.
None == <<>>

\* one iteration of the loop of find_matching_questions
question_step(matching_questions, question, pdf_content, threshold) ==
    LET similarity == calculate_text_similarity(pdf_content, question.question_text)
    IN  IF Geq(similarity, threshold)
        THEN Append(matching_questions,
                    [question |-> question, similarity_score |-> similarity])
        ELSE matching_questions

RECURSIVE question_loop(_, _, _, _)
question_loop(matching_questions, questions, pdf_content, threshold) ==
    IF questions = <<>> THEN matching_questions
    ELSE question_loop(question_step(matching_questions, Head(questions), pdf_content, threshold),
                       Tail(questions), pdf_content, threshold)

\* matching_questions.sort(key=lambda x: x['similarity_score'], reverse=True)
sort_by_similarity(matching_questions) ==
    LET sorted == SortDesc([i \in 1..Len(matching_questions) |->
                      <<matching_questions[i].similarity_score, matching_questions[i]>>])
    IN  [i \in 1..Len(sorted) |-> sorted[i][2]]

find_matching_questions(pdf_content, questions, threshold) ==
    LET pdf_keywords == extract_keywords(pdf_content, 50)
    IN  sort_by_similarity(question_loop(<<>>, questions, pdf_content, threshold))

\* theme_step that replaces the best match on an equal score
theme_step_TieLast(best, theme, pdf_keywords, threshold) ==
    LET overlap == calculate_keyword_overlap(pdf_keywords, theme.keywords)
    IN  IF Geq(overlap, threshold) /\ Geq(overlap, best.best_score) /\ Gt(overlap, Zero)
        THEN [best_score |-> overlap,
              best_match |-> <<[theme |-> theme, match_score |-> overlap]>>]
        ELSE best

\* theme_step without the comparison to the threshold
theme_step_NoThreshold(best, theme, pdf_keywords, threshold) ==
    LET overlap == calculate_keyword_overlap(pdf_keywords, theme.keywords)
    IN  IF Gt(overlap, best.best_score)
        THEN [best_score |-> overlap,
              best_match |-> <<[theme |-> theme, match_score |-> overlap]>>]
        ELSE best

\* one iteration of the loop of find_matching_theme
theme_step(best, theme, pdf_keywords, threshold) ==
    LET overlap == calculate_keyword_overlap(pdf_keywords, theme.keywords)
    IN  IF Geq(overlap, threshold) /\ Gt(overlap, best.best_score)
        THEN [best_score |-> overlap,
              best_match |-> <<[theme |-> theme, match_score |-> overlap]>>]
        ELSE best

RECURSIVE theme_loop(_, _, _, _)
theme_loop(best, themes, pdf_keywords, threshold) ==
    IF themes = <<>> THEN best
    ELSE theme_loop(theme_step(best, Head(themes), pdf_keywords, threshold),
                    Tail(themes), pdf_keywords, threshold)

find_matching_theme(pdf_keywords, themes, threshold) ==
    theme_loop([best_score |-> Zero, best_match |-> None],
               themes, pdf_keywords, threshold).best_match

(***************************************************************************)
(* State                                                                   *)
(***************************************************************************)
VARIABLES
    db,     \* the committed tables: themes, questions, answers, sessions
    tx,     \* the tables as the SQLAlchemy session sees them (db + pending changes)
    pc,     \* position of the create_session_with_pdf handler
    req,    \* the locals of the request being handled
    resp,   \* the last HTTP response
    obs,    \* observation of the current request: tables at its start, calls made
    nreq,   \* number of requests received
    nsvc,   \* number of QuizzService.create_question calls
    nthm,   \* number of POST /api/themes requests
    mt,     \* a call of find_matching_theme: arguments and returned value
    mq,     \* a call of find_matching_questions: arguments and returned value
    procs,  \* the concurrent handlers of create_session_with_pdf, one per thread
    sim     \* a call of a function of SimilarityService: arguments and returned value

vars == <<db, tx, pc, req, resp, obs, nreq, nsvc, nthm, mt, mq, procs, sim>>

(***************************************************************************)
(* Persistence: Persistence/DBStorage.py over the tables of Models/        *)
(***************************************************************************)
\* The users table is not changed by the operations modelled here.
Users == {"u1"}

QuestionTypeNames == {"QUIZ", "FLASHCARD"}
SessionTypeNames == {"QUIZ", "FLASHCARD"}
DifficultyNames == {"EASY", "MEDIUM", "HARD"}

EmptyTables == [themes |-> <<>>, questions |-> <<>>, answers |-> <<>>, sessions |-> <<>>]

\* Theme(...) with the column defaults; ids are positions in the table
\* NewTheme that drops the keywords it is given
NewTheme_NoKeywords(tables, user_id, name, description, keywords, questions_count) ==
    [id |-> Len(tables.themes) + 1, user_id |-> user_id, name |-> name,
     description |-> description, keywords |-> <<>>,
     questions_count |-> questions_count, times_used |-> 0,
     deleted_at |-> None]

NewTheme(tables, user_id, name, description, keywords, questions_count) ==
    [id |-> Len(tables.themes) + 1, user_id |-> user_id, name |-> name,
     description |-> description, keywords |-> keywords,
     questions_count |-> questions_count, times_used |-> 0,
     deleted_at |-> None]

NewQuestion(tables, theme_id, type, question_text, difficulty) ==
    [id |-> Len(tables.questions) + 1, theme_id |-> theme_id, type |-> type,
     question_text |-> question_text, difficulty |-> difficulty,
     times_used |-> 0, times_correct |-> 0, deleted_at |-> None]

NewAnswer(tables, question_id, is_correct, order_position) ==
    [id |-> Len(tables.answers) + 1, question_id |-> question_id,
     is_correct |-> is_correct, order_position |-> order_position]

\* NewSession that counts one question more than it is given
NewSession_CountPlusOne(tables, user_id, theme_id, type, questions_ids, questions_count) ==
    [id |-> Len(tables.sessions) + 1, user_id |-> user_id, theme_id |-> theme_id,
     type |-> type, questions_ids |-> questions_ids,
     questions_count |-> questions_count + 1,
     score |-> None, max_score |-> None, completed_at |-> None]

NewSession(tables, user_id, theme_id, type, questions_ids, questions_count) ==
    [id |-> Len(tables.sessions) + 1, user_id |-> user_id, theme_id |-> theme_id,
     type |-> type, questions_ids |-> questions_ids,
     questions_count |-> questions_count,
     score |-> None, max_score |-> None, completed_at |-> None]

\* Rows carry deleted_at, a column of the declarative BaseModel
\* (Backend/Models/baseModel.py line 46), the class the models are mapped
\* through; Models/baseModel.py, a plain class, maps nothing.
\* storage.get(cls, id): the row, unless it is missing or soft-deleted
get(rows, id) ==
    IF id \in 1..Len(rows) /\ rows[id].deleted_at = None THEN <<rows[id]>> ELSE None

\* storage.delete(obj), a soft delete: deleted_at = datetime.utcnow()
delete(rows, id, now) == [rows EXCEPT ![id].deleted_at = <<now>>]

\* storage.filter_by(Theme, user_id=...) with the soft-deleted rows included
filter_by_user_IncludeDeleted(tables, user_id) ==
    SelectSeq(tables.themes, LAMBDA t : t.user_id = user_id)

\* storage.filter_by(Theme, user_id=...) and storage.filter_by(Question, theme_id=...):
\* the rows with the field value that are not soft-deleted
filter_by_user(tables, user_id) ==
    SelectSeq(tables.themes, LAMBDA t : t.user_id = user_id /\ t.deleted_at = None)

filter_by_theme(tables, theme_id) ==
    SelectSeq(tables.questions, LAMBDA q : q.theme_id = theme_id /\ q.deleted_at = None)

\* UniqueConstraint('user_id', 'name'): would inserting this theme violate it
ViolatesUniqueThemeName(tables, theme) ==
    \E i \in 1..Len(tables.themes) :
        tables.themes[i].user_id = theme.user_id /\ tables.themes[i].name = theme.name

\* Theme.increment_usage on the row theme_id
\* increment_usage counting a use twice
increment_usage_Twice(tables, theme_id) ==
    [tables EXCEPT !.themes[theme_id].times_used = @ + 2]

increment_usage(tables, theme_id) ==
    [tables EXCEPT !.themes[theme_id].times_used = @ + 1]

(***************************************************************************)
(* Inputs of POST /api/sessions/create-with-pdf and its collaborators      *)
(***************************************************************************)
FormUserIds == {"", "ghost", "u1"}
FormSessionTypes == {"quizz", "quiz", "FLASHCARD"}
FormCounts == {"abc", "0", "1", "2", "51"}

\* str.upper() on the session types of the form
Upper(st) == CASE st = "quizz" -> "QUIZZ" [] st = "quiz" -> "QUIZ" [] OTHER -> st

\* int(): <<n>>, or None when int() raises ValueError
ParseInt(c) == CASE c = "0" -> <<0>> [] c = "1" -> <<1>> [] c = "2" -> <<2>>
                 [] c = "51" -> <<51>> [] OTHER -> None

\* the uploaded file: present in request.files or not, its name, and the text
\* PyPDF2 extracts from it (empty when nothing can be extracted)
PdfFiles ==
    {[present |-> FALSE, filename |-> "", text |-> <<>>],
     [present |-> TRUE, filename |-> "", text |-> <<>>],
     [present |-> TRUE, filename |-> "notes.txt", text |-> <<"Flask", "api">>],
     [present |-> TRUE, filename |-> "empty.pdf", text |-> <<>>],
     [present |-> TRUE, filename |-> "notes.PDF", text |-> <<"Flask", "api">>]}

\* filename.lower().endswith('.pdf')
IsPdfName(f) == f \in {"empty.pdf", "notes.PDF"}

\* what the theme summarizer can return: analyse_theme_with_groq documents
\* {theme_name, keywords, description} (lines 94-98), which is what its
\* caller reads; the parsing code of its body is a copy of the generator's
ThemeDatas ==
    {[theme_name |-> "Flask", keywords |-> <<"flask", "api">>, description |-> "d"],
     [theme_name |-> "Flask", keywords |-> <<>>, description |-> "d"],
     [theme_name |-> "Python", keywords |-> <<" Python", "flask">>, description |-> "d"]}

\* the items the content generator can return: the keys present in the dict,
\* the question text, the difficulty and the is_correct flags of 'answers'
GenItems ==
    {[keys |-> {"question", "answer"}, question |-> <<"api">>,
      difficulty |-> "", answers |-> <<>>],
     [keys |-> {"question", "answers", "difficulty"}, question |-> <<"the">>,
      difficulty |-> "HARD", answers |-> <<TRUE, TRUE, FALSE, FALSE>>]}

GeneratedLists == SeqsUpTo(GenItems, MaxGenerated)

\* q_data.get('difficulty', 'MEDIUM')
get_difficulty(q_data) == IF "difficulty" \in q_data.keys THEN q_data.difficulty ELSE "MEDIUM"

NoThemeData == [theme_name |-> "", keywords |-> <<>>, description |-> ""]

ReqIdle ==
    [user_id |-> "", session_type |-> "", questions_count |-> 0, pdf_text |-> <<>>,
     pdf_content |-> <<>>, theme_data |-> NoThemeData, generated_questions |-> <<>>,
     matched |-> FALSE, theme_id |-> 0, questions_ids |-> <<>>, todo |-> <<>>]

NoResponse == [status |-> 0, session |-> None]

ObsIdle == [db0 |-> EmptyTables, log |-> <<>>, pooled |-> <<>>, generated_ids |-> {},
            prev |-> None, form |-> None]

\* the theme resolution of the request that has just ended, if it made one
LastResolution ==
    IF req.theme_id # 0
    THEN <<[user_id |-> req.user_id, theme_data |-> req.theme_data,
            theme_id |-> req.theme_id]>>
    ELSE None

Event(op, count) == [op |-> op, count |-> count]

SimIdle == [op |-> "none", args |-> <<>>, called |-> FALSE, result |-> <<>>]

InitPipeline ==
    /\ sim = SimIdle
    /\ db = EmptyTables
    /\ tx = EmptyTables
    /\ pc = "idle"
    /\ req = ReqIdle
    /\ resp = NoResponse
    /\ obs = ObsIdle
    /\ nreq = 0
    /\ nsvc = 0
    /\ nthm = 0
    /\ procs = <<>>

(***************************************************************************)
(* create_session_with_pdf                                                 *)
(***************************************************************************)
\* abort(status) before the try block: nothing has been touched
Reject(status, form) ==
    /\ resp' = [status |-> status, session |-> None]
    /\ req' = ReqIdle
    /\ obs' = [ObsIdle EXCEPT !.db0 = db, !.form = <<form>>]
    /\ UNCHANGED <<db, tx, pc>>

\* the except clauses: storage.rollback() and abort(status); committed is the
\* content of the database at the time of the exception
Fail(status, committed, log) ==
    /\ db' = committed
    /\ tx' = committed
    /\ pc' = "idle"
    /\ resp' = [status |-> status, session |-> None]
    /\ obs' = [obs EXCEPT !.log = log]
    /\ UNCHANGED req

\* lines 202-233: the checks made before the pipeline starts
Submit(user_id, st, pdf_file, count) ==
    /\ pc = "idle"
    /\ nreq < MaxRequests
    /\ nreq' = nreq + 1
    /\ UNCHANGED <<nsvc, nthm, mt, mq, procs, sim>>
    /\ LET session_type == Upper(st)
           questions_count == ParseInt(count)
           form == [user_id |-> user_id, session_type |-> st, pdf_file |-> pdf_file,
                    questions_count |-> count]
       IN  IF user_id = "" THEN Reject(400, form)
           ELSE IF user_id \notin Users THEN Reject(404, form)
           ELSE IF session_type \notin {"QUIZZ", "FLASHCARD"} THEN Reject(400, form)
           ELSE IF ~pdf_file.present THEN Reject(400, form)
           ELSE IF pdf_file.filename = "" THEN Reject(400, form)
           ELSE IF ~IsPdfName(pdf_file.filename) THEN Reject(400, form)
           ELSE IF questions_count = None THEN Reject(400, form)
           ELSE IF questions_count[1] < 1 \/ questions_count[1] > 50 THEN Reject(400, form)
           ELSE /\ pc' = "validated"
                /\ req' = [ReqIdle EXCEPT !.user_id = user_id,
                                          !.session_type = session_type,
                                          !.questions_count = questions_count[1],
                                          !.pdf_text = pdf_file.text]
                /\ obs' = [ObsIdle EXCEPT !.db0 = db, !.prev = LastResolution,
                                          !.form = <<form>>]
                /\ resp' = NoResponse
                /\ UNCHANGED <<db, tx>>

\* the texts a failing provider (PyPDF2, the Groq client, json) puts in its
\* exception
ProviderErrors == {"rate limit exceeded", "invalid api key"}

\* f"{prefix}{str(e)}": the message of the ValueError the service raises in
\* place of the provider's exception
wrap_error(prefix, e) == <<prefix, e>>

\* abort(status, description=...): no error handler is registered, so the
\* description is part of the response
error_response(status, description) ==
    [status |-> status, session |-> None, description |-> description]

\* sessionRoutes.py lines 380-382: except ValueError as e: rollback and
\* abort(400, description=str(e))
AbortValueError(description, log) ==
    /\ db' = db
    /\ tx' = db
    /\ pc' = "idle"
    /\ resp' = error_response(400, description)
    /\ obs' = [obs EXCEPT !.log = log]
    /\ UNCHANGED req

\* analysis_pdf_fulll_pipeline: the extractor, then the theme
\* summarizer, then the content generator, asked for questions_count items.
\* extraction fails on a PDF without text or when the reader raises; each LLM
\* call can fail; every failure is a ValueError carrying the text of the
\* exception it replaces, answered with 400.
AnalysePdf ==
    /\ pc = "validated"
    /\ UNCHANGED <<nreq, nsvc, nthm, mt, mq, procs, sim>>
    /\ LET log1 == <<Event("extract", 0)>>
           log2 == Append(log1, Event("summarize", 0))
           log3 == Append(log2, Event("generate", req.questions_count))
       IN  \/ \E e \in ProviderErrors :
                AbortValueError(wrap_error("Error extracting PDF text: ", e), log1)
           \/ /\ req.pdf_text = <<>>
              /\ AbortValueError(wrap_error("Error extracting PDF text: ",
                                            "No text could be extracted from PDF"),
                                 log1)
           \/ /\ req.pdf_text # <<>>
              /\ \/ \E e \in ProviderErrors :
                      AbortValueError(wrap_error("Error generating questions with Groq: ", e),
                                      log2)
                 \/ \E e \in ProviderErrors :
                      AbortValueError(wrap_error("Error generating questions with Groq: ", e),
                                      log3)
                 \/ \E theme_data \in ThemeDatas, questions \in GeneratedLists :
                      /\ req' = [req EXCEPT !.pdf_content = req.pdf_text,
                                            !.theme_data = theme_data,
                                            !.generated_questions = questions]
                      /\ obs' = [obs EXCEPT !.log = log3]
                      /\ pc' = "analysed"
                      /\ UNCHANGED <<db, tx, resp>>

\* lines 256-264: the dictionaries handed to find_matching_theme
themes_dict(user_themes) ==
    [i \in 1..Len(user_themes) |->
        [id |-> user_themes[i].id, name |-> user_themes[i].name,
         keywords |-> user_themes[i].keywords,
         description |-> user_themes[i].description]]

\* lines 291-299: the dictionaries handed to find_matching_questions
question_dict(existing_questions) ==
    [i \in 1..Len(existing_questions) |->
        [id |-> existing_questions[i].id,
         question_text |-> existing_questions[i].question_text,
         type |-> existing_questions[i].type,
         difficulty |-> existing_questions[i].difficulty]]

\* line 313: [q['question']['id'] for q in matching_questions]
ids_of_matches(matching_questions) ==
    [i \in 1..Len(matching_questions) |-> matching_questions[i].question.id]

\* lines 289-313: the questions of the theme, whatever their type, matched
\* against the PDF content at 0.4; the ids of the first questions_count
pooled_ids(tables, theme_id, pdf_content, questions_count) ==
    ids_of_matches(Take(find_matching_questions(pdf_content,
                                                question_dict(filter_by_theme(tables, theme_id)),
                                                <<2, 5>>),
                        questions_count))

\* lines 277-323: a theme matched; its usage is counted (not committed), the
\* questions pooled, and the generated ones kept for the remaining count
UseMatchedTheme(theme_id, tx1, questions_ids) ==
    /\ tx' = tx1
    /\ req' = [req EXCEPT !.matched = TRUE, !.theme_id = theme_id,
                          !.questions_ids = questions_ids,
                          !.todo = IF Len(questions_ids) < req.questions_count
                                   THEN Take(req.generated_questions,
                                             req.questions_count - Len(questions_ids))
                                   ELSE <<>>]
    /\ obs' = [obs EXCEPT !.log = Append(@, Event("pool", 0)),
                          !.pooled = questions_ids]
    /\ pc' = "creating"
    /\ UNCHANGED <<db, resp>>

\* lines 329-347: no theme matched; a new theme is created and committed, and
\* every generated question is kept
CreateNewTheme(new_theme) ==
    IF ViolatesUniqueThemeName(tx, new_theme)
    THEN Fail(500, db, obs.log)
    ELSE /\ tx' = [tx EXCEPT !.themes = Append(@, new_theme)]
         /\ db' = [tx EXCEPT !.themes = Append(@, new_theme)]
         /\ req' = [req EXCEPT !.matched = FALSE, !.theme_id = new_theme.id,
                               !.questions_ids = <<>>,
                               !.todo = req.generated_questions]
         /\ pc' = "creating"
         /\ UNCHANGED <<resp, obs>>

\* lines 253-350 up to the first question created: the theme is matched and
\* the existing questions pooled, or a new theme is created and committed
MatchTheme(matching_theme) ==
    IF matching_theme # None
    THEN UseMatchedTheme(matching_theme[1].theme.id,
                         increment_usage(tx, matching_theme[1].theme.id),
                         pooled_ids(tx, matching_theme[1].theme.id,
                                    req.pdf_content, req.questions_count))
    ELSE CreateNewTheme(NewTheme(tx, req.user_id, req.theme_data.theme_name,
                                 req.theme_data.description,
                                 req.theme_data.keywords, 0))

ResolveTheme ==
    /\ pc = "analysed"
    /\ UNCHANGED <<nreq, nsvc, nthm, mt, mq, procs, sim>>
    /\ MatchTheme(find_matching_theme(req.theme_data.keywords,
                                      themes_dict(filter_by_user(tx, req.user_id)),
                                      <<2, 5>>))

\* one iteration of the loop of _create_questions_from_generated (lines
\* 409-442): the question is committed, then its answers are
CreateGeneratedQuestion ==
    /\ pc = "creating"
    /\ req.todo # <<>>
    /\ UNCHANGED <<nreq, nsvc, nthm, mt, mq, procs, sim>>
    /\ LET q_data == Head(req.todo)
           question == NewQuestion(tx, req.theme_id, req.session_type,
                                   q_data.question, get_difficulty(q_data))
           tx1 == [tx EXCEPT !.questions = Append(@, question)]
           quizz_answers == [i \in 1..Len(q_data.answers) |->
                               NewAnswer([answers |-> [j \in 1..(Len(tx1.answers) + i - 1) |-> 0]],
                                         question.id, q_data.answers[i], i - 1)]
           answers == IF req.session_type = "QUIZZ" THEN quizz_answers
                      ELSE <<NewAnswer(tx1, question.id, TRUE, 0)>>
           tx2 == [tx1 EXCEPT !.answers = @ \o answers]
       IN  IF req.session_type \notin QuestionTypeNames THEN Fail(500, db, obs.log)
           ELSE IF "question" \notin q_data.keys THEN Fail(500, db, obs.log)
           ELSE IF get_difficulty(q_data) \notin DifficultyNames THEN Fail(500, db, obs.log)
           ELSE IF req.session_type = "QUIZZ" /\ "anwers" \notin q_data.keys
                THEN Fail(500, tx1, obs.log)
           ELSE IF req.session_type # "QUIZZ" /\ "answer" \notin q_data.keys
                THEN Fail(500, tx1, obs.log)
           ELSE /\ tx' = tx2
                /\ db' = tx2
                /\ req' = [req EXCEPT !.todo = Tail(@),
                                      !.questions_ids = Append(@, question.id)]
                /\ obs' = [obs EXCEPT !.generated_ids = @ \cup {question.id}]
                /\ UNCHANGED <<pc, resp>>

\* lines 350-378: the counter of a new theme, the session, the last commit
AssembleSession ==
    /\ pc = "creating"
    /\ req.todo = <<>>
    /\ UNCHANGED <<nreq, nsvc, nthm, mt, mq, procs, sim>>
    /\ LET tx1 == IF req.matched THEN tx
                  ELSE [tx EXCEPT !.themes[req.theme_id].questions_count = Len(req.questions_ids)]
           session == NewSession(tx1, req.user_id, req.theme_id, req.session_type,
                                 req.questions_ids, Len(req.questions_ids))
           tx2 == [tx1 EXCEPT !.sessions = Append(@, session)]
       IN  IF req.session_type \notin SessionTypeNames THEN Fail(500, db, obs.log)
           ELSE /\ tx' = tx2
                /\ db' = tx2
                /\ pc' = "idle"
                /\ resp' = [status |-> 201, session |-> <<session>>]
                /\ UNCHANGED <<req, obs>>

(***************************************************************************)
(* QuizzService.create_question                                            *)
(***************************************************************************)
ServiceTexts == {<<"Flask", "api">>}

create_question(theme_id, question_text, question_type, difficulty) ==
    /\ pc = "idle"
    /\ nsvc < MaxServiceQuestions
    /\ nsvc' = nsvc + 1
    /\ req' = ReqIdle
    /\ resp' = NoResponse
    /\ UNCHANGED <<pc, nreq, nthm, mt, mq, procs, sim>>
    /\ LET q_type == IF question_type = "quiz" THEN "QUIZ" ELSE "FLASHCARD"
           diff == CASE difficulty = "easy" -> "EASY" [] difficulty = "medium" -> "MEDIUM"
                     [] difficulty = "hard" -> "HARD" [] OTHER -> ""
           question == NewQuestion(db, theme_id, q_type, question_text, diff)
           db1 == [db EXCEPT !.questions = Append(@, question),
                             !.themes[theme_id].questions_count = @ + 1]
       IN  IF get(db.themes, theme_id) = None \/ diff \notin DifficultyNames
           THEN UNCHANGED <<db, tx>> /\ obs' = [ObsIdle EXCEPT !.db0 = db]
           ELSE db' = db1 /\ tx' = db1 /\ obs' = [ObsIdle EXCEPT !.db0 = db1]

(***************************************************************************)
(* POST /api/themes                                                        *)
(***************************************************************************)
ThemeForms == {[name |-> "Web", keywords |-> <<"web">>, description |-> ""],
               [name |-> "Flask", keywords |-> <<"web">>, description |-> ""]}

\* themeRoutes.create_theme: the user must exist; the theme is committed,
\* or the commit fails on the unique constraint and is rolled back
create_theme(data, user_id) ==
    /\ pc = "idle"
    /\ nthm < MaxThemeRequests
    /\ nthm' = nthm + 1
    /\ req' = ReqIdle
    /\ resp' = NoResponse
    /\ UNCHANGED <<pc, nreq, nsvc, mt, mq, procs, sim>>
    /\ LET theme == NewTheme(db, user_id, data.name, data.description, data.keywords, 0)
           db1 == [db EXCEPT !.themes = Append(@, theme)]
       IN  IF user_id \notin Users \/ ViolatesUniqueThemeName(db, theme)
           THEN UNCHANGED <<db, tx>> /\ obs' = [ObsIdle EXCEPT !.db0 = db]
           ELSE db' = db1 /\ tx' = db1 /\ obs' = [ObsIdle EXCEPT !.db0 = db1]

(***************************************************************************)
(* Sessions: POST /api/sessions, PUT /api/sessions/<id>,                   *)
(* Session.complete_session, QuizzService.submit_quiz                      *)
(***************************************************************************)
\* the JSON bodies of POST /api/sessions; score and max_score are optional
SessionForms ==
    [user_id : {"ghost", "u1"}, type : {"quiz", "FLASHCARD", "exam"},
     questions_ids : {<<>>, <<1>>, <<1, 2>>},
     scores : {<<None, None>>, <<<<3>>, <<2>>>>}]

\* the JSON bodies of PUT /api/sessions/<id>: the keys present and their values
UpdateForms ==
    {[keys |-> {}, score |-> 0, max_score |-> 0],
     [keys |-> {"score"}, score |-> 1, max_score |-> 0],
     [keys |-> {"score", "max_score"}, score |-> 1, max_score |-> 2],
     [keys |-> {"score", "max_score"}, score |-> 3, max_score |-> 2],
     [keys |-> {"score", "max_score"}, score |-> 0, max_score |-> 0]}

\* the answers of a submitted quiz: question id -> chosen answer id
AnswerSheets ==
    {[q \in {} |-> 0], [q \in {1} |-> 1], [q \in {1} |-> 2]}

\* Session.complete_session; now stands for datetime.utcnow()
complete_session(session, score, max_score, now) ==
    [session EXCEPT !.completed_at = <<now>>, !.score = <<score>>,
                    !.max_score = <<max_score>>]

\* Session.is_completed
is_completed(session) == session.completed_at # None

\* get_success_rate without the test of completed_at
get_success_rate_NoCompletedCheck(session) ==
    IF session.max_score = None \/ session.max_score = <<0>>
    THEN Zero
    ELSE IF session.score = None THEN <<"TypeError">>
    ELSE Div(session.score[1] * 100, session.max_score[1])

\* Session.get_success_rate, a percentage as a fraction; score / max_score
\* raises TypeError on a score that is None
get_success_rate(session) ==
    IF session.completed_at = None \/ session.max_score = None
       \/ session.max_score = <<0>>
    THEN Zero
    ELSE IF session.score = None THEN <<"TypeError">>
    ELSE Div(session.score[1] * 100, session.max_score[1])

\* a session request: one more request received, nothing of the PDF handler
\* or of the other services moves
SessionRequest ==
    /\ pc = "idle"
    /\ nreq < MaxSessionOps
    /\ nreq' = nreq + 1
    /\ UNCHANGED <<pc, req, obs, nsvc, nthm, mt, mq, procs, sim>>

Respond(status, committed, session) ==
    /\ db' = committed
    /\ tx' = committed
    /\ resp' = [status |-> status, session |-> session]

\* sessionRoutes.create_session
create_session(data) ==
    /\ SessionRequest
    /\ Len(db.sessions) < MaxSessions
    /\ LET session_type == Upper(data.type)
           session == [NewSession(db, data.user_id, 0, session_type, data.questions_ids,
                                  Len(data.questions_ids))
                       EXCEPT !.score = data.scores[1], !.max_score = data.scores[2]]
       IN  IF data.user_id \notin Users THEN Respond(404, db, None)
           ELSE IF session_type \notin {"QUIZ", "FLASHCARD"} THEN Respond(400, db, None)
           ELSE IF data.questions_ids = <<>> THEN Respond(400, db, None)
           ELSE Respond(201, [db EXCEPT !.sessions = Append(@, session)], <<session>>)

\* sessionRoutes.update_session
update_session(session_id, data) ==
    /\ SessionRequest
    /\ IF session_id \notin 1..Len(db.sessions) THEN Respond(404, db, None)
       ELSE LET session == IF {"score", "max_score"} \subseteq data.keys
                           THEN complete_session(db.sessions[session_id], data.score,
                                                 data.max_score, nreq + 1)
                           ELSE db.sessions[session_id]
            IN  Respond(200, [db EXCEPT !.sessions[session_id] = session], <<session>>)

\* Session.complete_session called on a stored session, then committed
CompleteSession(session_id, score, max_score) ==
    /\ SessionRequest
    /\ session_id \in 1..Len(db.sessions)
    /\ LET session == complete_session(db.sessions[session_id], score, max_score, nreq + 1)
       IN  Respond(200, [db EXCEPT !.sessions[session_id] = session], <<session>>)

\* the loop of submit_quiz over the question ids of the session: the score,
\* and the usage statistics of the questions met
RECURSIVE mark_quiz(_, _, _)
mark_quiz(acc, ids, answers) ==
    IF ids = <<>> THEN acc
    ELSE LET question_id == Head(ids)
             questions == acc.tables.questions
         IN  IF get(questions, question_id) = None
             THEN mark_quiz(acc, Tail(ids), answers)
             ELSE LET question_answers ==
                          SelectSeq(acc.tables.answers,
                                    LAMBDA a : a.question_id = question_id /\ a.is_correct)
                      user_answer_id == IF question_id \in DOMAIN answers
                                        THEN <<answers[question_id]>> ELSE None
                      is_correct == /\ question_answers # <<>>
                                    /\ user_answer_id = <<Head(question_answers).id>>
                  IN  mark_quiz(
                        [score |-> acc.score + (IF is_correct THEN 1 ELSE 0),
                         tables |-> [acc.tables EXCEPT
                            !.questions[question_id].times_used = @ + 1,
                            !.questions[question_id].times_correct =
                                @ + (IF is_correct THEN 1 ELSE 0)]],
                        Tail(ids), answers)

\* submit_quiz without the test of is_completed
submit_quiz_NoCompletedCheck(session_id, answers) ==
    /\ SessionRequest
    /\ IF session_id \notin 1..Len(db.sessions) THEN Respond(404, db, None)
       ELSE IF db.sessions[session_id].type # "QUIZ" THEN Respond(400, db, None)
       ELSE LET marked == mark_quiz([score |-> 0, tables |-> db],
                                    db.sessions[session_id].questions_ids, answers)
                session == complete_session(db.sessions[session_id], marked.score,
                                            Len(db.sessions[session_id].questions_ids),
                                            nreq + 1)
            IN  Respond(200, [marked.tables EXCEPT !.sessions[session_id] = session],
                        <<session>>)

\* QuizzService.submit_quiz
submit_quiz(session_id, answers) ==
    /\ SessionRequest
    /\ IF session_id \notin 1..Len(db.sessions) THEN Respond(404, db, None)
       ELSE IF is_completed(db.sessions[session_id]) THEN Respond(409, db, None)
       ELSE IF db.sessions[session_id].type # "QUIZ" THEN Respond(400, db, None)
       ELSE LET marked == mark_quiz([score |-> 0, tables |-> db],
                                    db.sessions[session_id].questions_ids, answers)
                session == complete_session(db.sessions[session_id], marked.score,
                                            Len(db.sessions[session_id].questions_ids),
                                            nreq + 1)
            IN  Respond(200, [marked.tables EXCEPT !.sessions[session_id] = session],
                        <<session>>)

\* QuizzService.add_answer_to_question
add_answer_to_question(question_id, is_correct) ==
    /\ pc = "idle"
    /\ Len(db.answers) < MaxAnswers
    /\ question_id \in 1..Len(db.questions)
    /\ Respond(201, [db EXCEPT !.answers = Append(@, NewAnswer(db, question_id, is_correct, 0))],
               None)
    /\ UNCHANGED <<pc, req, obs, nreq, nsvc, nthm, mt, mq, procs, sim>>

\* Session.get_success_rate called on a stored session
GetSuccessRate(session_id) ==
    /\ pc = "idle"
    /\ session_id \in 1..Len(db.sessions)
    /\ resp' = [status |-> 200, session |-> <<db.sessions[session_id]>>,
                success_rate |-> get_success_rate(db.sessions[session_id])]
    /\ UNCHANGED <<db, tx, pc, req, obs, nreq, nsvc, nthm, mt, mq, procs, sim>>

\* the session operations, on questions and answers made by the services
NextSessions ==
    \/ \E session_id \in 1..Len(db.sessions) : GetSuccessRate(session_id)
    \/ \E data \in SessionForms : create_session(data)
    \/ \E session_id \in 1..(Len(db.sessions) + 1), data \in UpdateForms :
          update_session(session_id, data)
    \/ \E session_id \in 1..Len(db.sessions), scores \in {<<7, 10>>, <<0, 0>>} :
          CompleteSession(session_id, scores[1], scores[2])
    \/ \E session_id \in 1..(Len(db.sessions) + 1), answers \in AnswerSheets :
          submit_quiz(session_id, answers)
    \/ \E question_id \in 1..Len(db.questions), is_correct \in BOOLEAN :
          add_answer_to_question(question_id, is_correct)
    \/ \E theme_id \in 1..Len(db.themes) :
          create_question(theme_id, <<"Flask", "api">>, "quiz", "medium")
    \/ create_theme([name |-> "Web", keywords |-> <<"web">>, description |-> ""], "u1")

(***************************************************************************)
(* The matchers as pure functions, applied to every bounded input          *)
(***************************************************************************)
Thresholds == {<<0, 1>>, <<2, 5>>, <<1, 2>>, <<1, 1>>}

\* calculate_keyword_overlap turns each keyword list into a set (lines
\* 164-165), so the lists are enumerated up to order and repetition
KeywordLists == Subseqs(RawKeywords, MaxKw)

ThemeDictLists ==
    UNION {{[i \in 1..n |-> [id |-> i, keywords |-> ks[i]]] : ks \in [1..n -> KeywordLists]}
           : n \in 0..MaxHarnessThemes}

\* calculate_text_similarity compares the sets of the keywords of the two
\* texts (lines 124-125) and top_n is never reached on these texts, so the
\* texts are enumerated up to order and repetition
Texts == Subseqs(RawChunks, MaxTextLen)

QuestionDictLists ==
    UNION {{[i \in 1..n |-> [id |-> i, question_text |-> ts[i]]] : ts \in [1..n -> Texts]}
           : n \in 0..MaxHarnessQuestions}

MtIdle == [pdf_keywords |-> <<>>, themes |-> <<>>, threshold |-> Zero,
           called |-> FALSE, result |-> None]

MqIdle == [pdf_content |-> <<>>, questions |-> <<>>, threshold |-> Zero,
           called |-> FALSE, result |-> <<>>]

InitTheme ==
    /\ mt \in {[pdf_keywords |-> k, themes |-> t, threshold |-> th,
                called |-> FALSE, result |-> None]
               : k \in KeywordLists, t \in ThemeDictLists, th \in Thresholds}
    /\ mq = MqIdle
    /\ InitPipeline

CallFindMatchingTheme ==
    /\ ~mt.called
    /\ mt' = [mt EXCEPT !.called = TRUE,
                        !.result = find_matching_theme(mt.pdf_keywords, mt.themes, mt.threshold)]
    /\ UNCHANGED <<mq, db, tx, pc, req, resp, obs, nreq, nsvc, nthm, procs, sim>>

NextTheme == CallFindMatchingTheme

SpecTheme == InitTheme /\ [][NextTheme]_vars

InitQuestions ==
    /\ mq \in {[pdf_content |-> c, questions |-> q, threshold |-> th,
                called |-> FALSE, result |-> <<>>]
               : c \in Texts, q \in QuestionDictLists, th \in Thresholds}
    /\ mt = MtIdle
    /\ InitPipeline

CallFindMatchingQuestions ==
    /\ ~mq.called
    /\ mq' = [mq EXCEPT !.called = TRUE,
                        !.result = find_matching_questions(mq.pdf_content, mq.questions, mq.threshold)]
    /\ UNCHANGED <<mt, db, tx, pc, req, resp, obs, nreq, nsvc, nthm, procs, sim>>

NextQuestions == CallFindMatchingQuestions

SpecQuestions == InitQuestions /\ [][NextQuestions]_vars

(***************************************************************************)
(* The functions of SimilarityService, applied to every bounded input      *)
(***************************************************************************)
SimKeywords == <<"python", " Python", "flask", "api", "django", "orm", "web", "École ">>

\* the keyword lists, up to order (calculate_keyword_overlap turns each list
\* into a set); "python" and " Python" make lists with a repeated keyword
SimKeywordLists == Subseqs(SimKeywords, MaxSimKw)

SimChunks == {"Flask", "flask", "the", "api", "de", "e-mail", "--", "École"}

SimTexts(n) == SeqsUpTo(SimChunks, n)

TopNs == 0..MaxSimText

\* the two themes of the documented scenarios
ScenarioThemes ==
    <<[id |-> 1, keywords |-> <<"python", "django", "orm">>],
      [id |-> 2, keywords |-> <<"python", "flask", "web">>]>>

SimCall(op, args) == [op |-> op, args |-> args, called |-> FALSE, result |-> <<>>]

InitSimilarity ==
    /\ sim \in {SimCall("calculate_keyword_overlap", <<a, b>>)
                  : a \in SimKeywordLists, b \in SimKeywordLists}
          \cup {SimCall("calculate_text_similarity", <<a, b>>)
                  : a \in SimTexts(MaxSimPairText), b \in SimTexts(MaxSimPairText)}
          \cup {SimCall("extract_keywords", <<text, top_n>>)
                  : text \in SimTexts(MaxSimText), top_n \in TopNs}
          \cup {SimCall("find_matching_theme", <<<<"python", "flask", "api">>, themes, <<2, 5>>>>)
                  : themes \in Subseqs(ScenarioThemes, 2)}
    /\ db = EmptyTables
    /\ tx = EmptyTables
    /\ pc = "idle"
    /\ req = ReqIdle
    /\ resp = NoResponse
    /\ obs = ObsIdle
    /\ nreq = 0
    /\ nsvc = 0
    /\ nthm = 0
    /\ procs = <<>>
    /\ mt = MtIdle
    /\ mq = MqIdle

Return(op, result) ==
    /\ sim.op = op
    /\ ~sim.called
    /\ sim' = [sim EXCEPT !.called = TRUE, !.result = result]
    /\ UNCHANGED <<db, tx, pc, req, resp, obs, nreq, nsvc, nthm, mt, mq, procs>>

CallKeywordOverlap ==
    Return("calculate_keyword_overlap",
           calculate_keyword_overlap(sim.args[1], sim.args[2]))

CallTextSimilarity ==
    Return("calculate_text_similarity",
           calculate_text_similarity(sim.args[1], sim.args[2]))

CallExtractKeywords ==
    Return("extract_keywords", extract_keywords(sim.args[1], sim.args[2]))

CallMatchScenario ==
    Return("find_matching_theme",
           find_matching_theme(sim.args[1], sim.args[2], sim.args[3]))

NextSimilarity ==
    \/ CallKeywordOverlap
    \/ CallTextSimilarity
    \/ CallExtractKeywords
    \/ CallMatchScenario

SpecSimilarity == InitSimilarity /\ [][NextSimilarity]_vars

(***************************************************************************)
(* The application: requests handled one after the other                   *)
(***************************************************************************)
Init ==
    /\ InitPipeline
    /\ mt = MtIdle
    /\ mq = MqIdle

Next ==
    \/ \E user_id \in FormUserIds, st \in FormSessionTypes, pdf_file \in PdfFiles,
          count \in FormCounts : Submit(user_id, st, pdf_file, count)
    \/ AnalysePdf
    \/ ResolveTheme
    \/ CreateGeneratedQuestion
    \/ AssembleSession
    \/ \E theme_id \in 0..Len(db.themes), question_text \in ServiceTexts,
          question_type \in {"quiz", "flashcard"}, difficulty \in {"medium", "extreme"} :
          create_question(theme_id, question_text, question_type, difficulty)
    \/ \E data \in ThemeForms, user_id \in {"ghost", "u1"} : create_theme(data, user_id)

Spec == Init /\ [][Next]_vars

SpecSessions == Init /\ [][NextSessions]_vars

(***************************************************************************)
(* QuizzService.create_quiz_session and create_flashcard_session, and the  *)
(* application seen as the set of its session creation paths               *)
(***************************************************************************)
\* random.sample(population, k): any k distinct elements, in any order
Samples(population, k) ==
    {s \in [1..k -> 1..Len(population)] : \A i, j \in 1..k : s[i] = s[j] => i = j}

\* the tuple (session, ..., error message) a service method returns
ServiceReturn(committed, session, error) ==
    /\ db' = committed
    /\ tx' = committed
    /\ resp' = [status |-> 0, session |-> session, error |-> error]

\* the body the two methods share: the theme must exist, the theme must have
\* questions_count questions of the type that are not deleted; the session is
\* committed, then the usage of the theme is counted and committed
create_typed_session(type, user_id, theme_id, questions_count) ==
    /\ SessionRequest
    /\ Len(db.sessions) < MaxSessions
    /\ LET all_questions == filter_by_theme(db, theme_id)
           typed == SelectSeq(all_questions, LAMBDA q : q.type = type /\ q.deleted_at = None)
       IN  IF get(db.themes, theme_id) = None
           THEN ServiceReturn(db, None, "Thème non trouvé")
           ELSE IF Len(typed) < questions_count
           THEN ServiceReturn(db, None, "Pas assez de questions")
           ELSE IF questions_count < 0
           THEN ServiceReturn(db, None, "ValueError")
           ELSE \E selected \in Samples(typed, questions_count) :
                  LET question_ids == [i \in 1..questions_count |-> typed[selected[i]].id]
                      session == NewSession(db, user_id, theme_id, type, question_ids,
                                            questions_count)
                      db1 == [db EXCEPT !.sessions = Append(@, session)]
                  IN  ServiceReturn(increment_usage(db1, theme_id), <<session>>, None)

create_quiz_session(user_id, theme_id, questions_count) ==
    create_typed_session("QUIZ", user_id, theme_id, questions_count)

create_flashcard_session(user_id, theme_id, cards_count) ==
    create_typed_session("FLASHCARD", user_id, theme_id, cards_count)

ServiceCounts == -1..2

\* create_session_with_pdf on the forms that pass validation
PdfRequests ==
    \/ \E count \in {"1", "2"} :
          Submit("u1", "FLASHCARD",
                 [present |-> TRUE, filename |-> "notes.PDF", text |-> <<"Flask", "api">>],
                 count)
    \/ AnalysePdf
    \/ ResolveTheme
    \/ CreateGeneratedQuestion
    \/ AssembleSession

NextCreation ==
    \/ PdfRequests
    \/ \E data \in {f \in SessionForms : f.scores = <<None, None>> /\ f.user_id = "u1"} :
          create_session(data)
    \/ \E theme_id \in 1..(Len(db.themes) + 1), questions_count \in ServiceCounts :
          create_quiz_session("u1", theme_id, questions_count)
    \/ \E theme_id \in 1..(Len(db.themes) + 1), cards_count \in ServiceCounts :
          create_flashcard_session("u1", theme_id, cards_count)
    \/ \E theme_id \in 1..Len(db.themes), question_type \in {"quiz", "flashcard"} :
          create_question(theme_id, <<"Flask", "api">>, question_type, "medium")
    \/ create_theme([name |-> "Web", keywords |-> <<"web">>, description |-> ""], "u1")

SpecCreation == Init /\ [][NextCreation]_vars

(***************************************************************************)
(* DELETE /api/themes/<id> and DELETE /questions/<id>: soft deletion, and   *)
(* the PDF requests that come before and after                             *)
(***************************************************************************)
\* the entity is fetched (404 when storage.get returns None), marked with
\* storage.delete and committed with storage.save
delete_entity(table, id) ==
    /\ pc = "idle"
    /\ req' = ReqIdle
    /\ UNCHANGED <<pc, nreq, nsvc, nthm, mt, mq, procs, sim>>
    /\ IF get(db[table], id) = None
       THEN /\ resp' = [status |-> 404, session |-> None]
            /\ obs' = [ObsIdle EXCEPT !.db0 = db]
            /\ UNCHANGED <<db, tx>>
       ELSE LET db1 == [db EXCEPT ![table] = delete(@, id, nreq + 1)]
            IN  /\ resp' = [status |-> 200, session |-> None]
                /\ obs' = [ObsIdle EXCEPT !.db0 = db1]
                /\ db' = db1
                /\ tx' = db1

delete_theme(theme_id) == delete_entity("themes", theme_id)

delete_question(question_id) == delete_entity("questions", question_id)

NextDeletion ==
    \/ PdfRequests
    \/ \E theme_id \in 1..(Len(db.themes) + 1) : delete_theme(theme_id)
    \/ \E question_id \in 1..(Len(db.questions) + 1) : delete_question(question_id)

SpecDeletion == Init /\ [][NextDeletion]_vars

(***************************************************************************)
(* create_session_with_pdf handled by several threads at once.  Each       *)
(* thread has its own SQLAlchemy session (scoped_session); the steps are   *)
(* the accesses to the database: the SELECT of the user's themes, the      *)
(* INSERT and commit of a new theme, each later commit.                    *)
(***************************************************************************)
Procs == 1..MaxProcs

\* a well-formed flashcard item of the generator
GoodItem == CHOOSE g \in GenItems : "answer" \in g.keys

ProcIdle ==
    [pc |-> "idle", theme_data |-> NoThemeData, generated |-> <<>>,
     matcher_runs |-> 0, matched |-> FALSE, theme_id |-> 0, times_used |-> None,
     questions_ids |-> <<>>, todo |-> <<>>, conflict |-> FALSE, status |-> 0]

\* the request of every thread: user u1, FLASHCARD, one question, the same PDF
ProcUser == "u1"
ProcCount == 1
ProcContent == <<"Flask", "api">>

\* nothing but the threads and the database moves
ThreadStep ==
    /\ tx' = db'
    /\ UNCHANGED <<pc, req, resp, obs, nreq, nsvc, nthm, mt, mq, sim>>

\* lines 202-243: validation and analysis of a well-formed request
Begin(p, theme_data, generated) ==
    /\ procs[p].pc = "idle"
    /\ procs' = [procs EXCEPT ![p] = [ProcIdle EXCEPT !.pc = "analysed",
                                                      !.theme_data = theme_data,
                                                      !.generated = generated]]
    /\ UNCHANGED db
    /\ ThreadStep

\* the thread after find_matching_theme has returned
AfterMatch(proc, matching_theme) ==
    IF matching_theme # None
    THEN [proc EXCEPT !.pc = "matched", !.matched = TRUE,
                      !.matcher_runs = @ + 1,
                      !.theme_id = matching_theme[1].theme.id,
                      !.times_used =
                          <<db.themes[matching_theme[1].theme.id].times_used + 1>>]
    ELSE [proc EXCEPT !.pc = "unmatched", !.matcher_runs = @ + 1]

\* lines 254-284: the themes of the user are read and matched; a matched
\* theme is loaded and its usage counted on the loaded object
ReadThemes(p) ==
    /\ procs[p].pc = "analysed"
    /\ procs' = [procs EXCEPT ![p] =
           AfterMatch(@, find_matching_theme(@.theme_data.keywords,
                                             themes_dict(filter_by_user(db, ProcUser)),
                                             <<2, 5>>))]
    /\ UNCHANGED db
    /\ ThreadStep

\* the thread after the pooling of the questions of its theme
AfterPool(proc, questions_ids) ==
    [proc EXCEPT !.pc = "creating", !.questions_ids = questions_ids,
                 !.todo = IF Len(questions_ids) < ProcCount
                          THEN Take(proc.generated, ProcCount - Len(questions_ids))
                          ELSE <<>>]

\* lines 289-310: the questions of the matched theme are read and pooled
PoolQuestions(p) ==
    /\ procs[p].pc = "matched"
    /\ procs' = [procs EXCEPT ![p] =
           AfterPool(@, pooled_ids(db, @.theme_id, ProcContent, ProcCount))]
    /\ UNCHANGED db
    /\ ThreadStep

\* lines 329-340 and 380-386: the new theme is inserted and committed; the
\* commit fails on the unique constraint when a theme of that name has been
\* committed in the meantime, and the request ends with 500
InsertTheme(p) ==
    /\ procs[p].pc = "unmatched"
    /\ LET new_theme == NewTheme(db, ProcUser, procs[p].theme_data.theme_name,
                                 procs[p].theme_data.description,
                                 procs[p].theme_data.keywords, 0)
       IN  IF ViolatesUniqueThemeName(db, new_theme)
           THEN /\ procs' = [procs EXCEPT ![p] = [@ EXCEPT !.pc = "done", !.status = 500,
                                                           !.conflict = TRUE]]
                /\ UNCHANGED db
           ELSE /\ procs' = [procs EXCEPT ![p] = [@ EXCEPT !.pc = "creating",
                                                           !.theme_id = new_theme.id,
                                                           !.todo = procs[p].generated]]
                /\ db' = [db EXCEPT !.themes = Append(@, new_theme)]
    /\ ThreadStep

\* a commit of thread p: the UPDATE of the usage counter it holds, if any
Flush(tables, p) ==
    IF procs[p].times_used = None THEN tables
    ELSE [tables EXCEPT !.themes[procs[p].theme_id].times_used = procs[p].times_used[1]]

\* lines 409-442 on a well-formed flashcard item: question and answer, committed
InsertQuestion(p) ==
    /\ procs[p].pc = "creating"
    /\ procs[p].todo # <<>>
    /\ LET q_data == Head(procs[p].todo)
           question == NewQuestion(db, procs[p].theme_id, "FLASHCARD", q_data.question,
                                   get_difficulty(q_data))
           db1 == [Flush(db, p) EXCEPT !.questions = Append(@, question)]
       IN  /\ db' = [db1 EXCEPT !.answers = Append(@, NewAnswer(db1, question.id, TRUE, 0))]
           /\ procs' = [procs EXCEPT ![p] =
                  [@ EXCEPT !.todo = Tail(@), !.times_used = None,
                            !.questions_ids = Append(@, question.id)]]
    /\ ThreadStep

\* lines 350-378: the counter of a new theme, the session, the last commit
InsertSession(p) ==
    /\ procs[p].pc = "creating"
    /\ procs[p].todo = <<>>
    /\ LET db1 == IF procs[p].matched THEN Flush(db, p)
                  ELSE [db EXCEPT !.themes[procs[p].theme_id].questions_count =
                                      Len(procs[p].questions_ids)]
           session == NewSession(db1, ProcUser, procs[p].theme_id, "FLASHCARD",
                                 procs[p].questions_ids, Len(procs[p].questions_ids))
       IN  db' = [db1 EXCEPT !.sessions = Append(@, session)]
    /\ procs' = [procs EXCEPT ![p] = [@ EXCEPT !.pc = "done", !.status = 201,
                                              !.times_used = None]]
    /\ ThreadStep

InitConcurrent ==
    /\ db = EmptyTables
    /\ tx = EmptyTables
    /\ pc = "idle"
    /\ req = ReqIdle
    /\ resp = NoResponse
    /\ obs = ObsIdle
    /\ nreq = 0
    /\ nsvc = 0
    /\ nthm = 0
    /\ mt = MtIdle
    /\ mq = MqIdle
    /\ sim = SimIdle
    /\ procs = [p \in Procs |-> ProcIdle]

NextConcurrent ==
    \/ \E p \in Procs, theme_data \in ThemeDatas, generated \in {<<>>, <<GoodItem>>} :
          Begin(p, theme_data, generated)
    \/ \E p \in Procs : ReadThemes(p)
    \/ \E p \in Procs : PoolQuestions(p)
    \/ \E p \in Procs : InsertTheme(p)
    \/ \E p \in Procs : InsertQuestion(p)
    \/ \E p \in Procs : InsertSession(p)
    \/ create_theme([name |-> "Flask", keywords |-> <<"flask", "api">>, description |-> ""],
                    "u1")

SpecConcurrent == InitConcurrent /\ [][NextConcurrent]_vars

(***************************************************************************)
(* Properties of find_matching_theme                                       *)
(***************************************************************************)
MtScore(i) == calculate_keyword_overlap(mt.pdf_keywords, mt.themes[i].keywords)

MtIsMax(i) == \A j \in 1..Len(mt.themes) : Geq(MtScore(i), MtScore(j))

\* C3: find_matching_theme never returns a theme whose keyword-overlap score
\* is below the threshold, and among the themes tied at the maximum score it
\* returns the one that comes first in the input list.
C3_ThemeAboveThresholdFirstOfTies ==
    (mt.called /\ mt.result # None) =>
        \E i \in 1..Len(mt.themes) :
            /\ mt.result[1].theme = mt.themes[i]
            /\ Geq(MtScore(i), mt.threshold)
            /\ MtIsMax(i)
            /\ \A j \in 1..(i - 1) : MtScore(j) # MtScore(i)

C3_Witness ==
    /\ mt.called /\ mt.result # None
    /\ Len(mt.themes) >= 2
    /\ MtScore(1) = MtScore(2) /\ MtIsMax(1)
    /\ mt.themes[1].keywords # mt.themes[2].keywords
    /\ mt.result[1].theme.id = 1

\* C4 as stated: a match is returned if and only if at least one theme has
\* overlap score >= threshold, and the returned score is the maximum overlap
\* score over all themes.
C4_Original ==
    mt.called =>
        /\ (mt.result # None) <=> (\E i \in 1..Len(mt.themes) : Geq(MtScore(i), mt.threshold))
        /\ mt.result # None =>
              \E i \in 1..Len(mt.themes) : MtIsMax(i) /\ mt.result[1].match_score = MtScore(i)

\* C4 amended: a match is returned if and only if at least one theme has an
\* overlap score that is >= threshold and strictly positive, and the returned
\* score is the maximum overlap score over all themes; with every score 0.0
\* the result is 'no match', also at threshold 0.0.
C4_MatchIffPositiveScoreAboveThreshold ==
    mt.called =>
        /\ (mt.result # None) <=>
              (\E i \in 1..Len(mt.themes) : Geq(MtScore(i), mt.threshold) /\ Gt(MtScore(i), Zero))
        /\ mt.result # None =>
              \E i \in 1..Len(mt.themes) : MtIsMax(i) /\ mt.result[1].match_score = MtScore(i)

C4_Witness ==
    /\ mt.called /\ mt.result # None
    /\ Len(mt.themes) >= 2
    /\ \E i \in 1..Len(mt.themes) : ~Geq(MtScore(i), mt.threshold)
    /\ Gt(mt.threshold, Zero)

(***************************************************************************)
(* Properties of find_matching_questions                                   *)
(***************************************************************************)
MqScore(i) == calculate_text_similarity(mq.pdf_content, mq.questions[i].question_text)

\* C5: find_matching_questions returns exactly the candidate questions whose
\* similarity to the source text is >= threshold, each paired with its score,
\* in descending score order, candidates of equal score in their input order.
C5_QuestionsFilteredSortedStable ==
    mq.called =>
        /\ {mq.result[k].question.id : k \in 1..Len(mq.result)}
              = {i \in 1..Len(mq.questions) : Geq(MqScore(i), mq.threshold)}
        /\ Len(mq.result) = Cardinality({i \in 1..Len(mq.questions) : Geq(MqScore(i), mq.threshold)})
        /\ \A k \in 1..Len(mq.result) :
              /\ mq.result[k].question = mq.questions[mq.result[k].question.id]
              /\ mq.result[k].similarity_score = MqScore(mq.result[k].question.id)
        /\ \A k \in 1..(Len(mq.result) - 1) :
              \/ Gt(mq.result[k].similarity_score, mq.result[k + 1].similarity_score)
              \/ /\ mq.result[k].similarity_score = mq.result[k + 1].similarity_score
                 /\ mq.result[k].question.id < mq.result[k + 1].question.id

C5_Witness ==
    /\ mq.called /\ Len(mq.result) >= 2
    /\ Gt(mq.threshold, Zero)
    /\ mq.result[1].similarity_score = mq.result[2].similarity_score
    /\ mq.result[1].question.question_text # mq.result[2].question.question_text

(***************************************************************************)
(* Properties of the PDF session pipeline                                  *)
(***************************************************************************)
\* the handler has returned 201 with the session it created
Succeeded == pc = "idle" /\ resp.status = 201

\* the handler has passed the validation and ended in an error response
Failed == pc = "idle" /\ resp.status \in {400, 500} /\ req # ReqIdle

CreatedSession == resp.session[1]

\* question rows committed since the request started
NewQuestionIds == (Len(obs.db0.questions) + 1)..Len(db.questions)

AnswersOf(question_id) ==
    {i \in 1..Len(db.answers) : db.answers[i].question_id = question_id}

SimilarityToPdf(question_id) ==
    calculate_text_similarity(req.pdf_content, db.questions[question_id].question_text)

\* the questions of the request's theme that existed when the request
\* started and are similar enough to the PDF
EligibleIds ==
    {i \in 1..Len(obs.db0.questions) :
        /\ obs.db0.questions[i].theme_id = req.theme_id
        /\ Geq(SimilarityToPdf(i), <<2, 5>>)}

\* C1 as stated: a PDF session request with requested count N that succeeds
\* creates a session that references exactly N question ids (when pooling
\* and generation supply fewer, the request fails).
C1_SessionHasRequestedCount ==
    Succeeded => Len(CreatedSession.questions_ids) = req.questions_count

\* C2 as stated: after a failed PDF session request the store holds no
\* Theme, Question, Answer or Session created by that request.
C2_FailureLeavesNothing ==
    Failed => db = obs.db0

\* C6 as stated: the content generator is invoked only after pooling, for
\* exactly N - len(pooled) items when that is positive, and not at all when
\* pooling alone supplies N questions.
C6_GeneratorAfterPoolingForRemaining ==
    Succeeded =>
        \A i \in 1..Len(obs.log) :
            obs.log[i].op = "generate" =>
                /\ obs.log[i].count = req.questions_count - Len(obs.pooled)
                /\ obs.log[i].count > 0
                /\ req.matched => \E j \in 1..(i - 1) : obs.log[j].op = "pool"

\* C7 as stated: the session lists the pooled questions first, min(N, number
\* of matches) of them in descending similarity order, then the newly
\* generated questions; its questions_count is N and its score, max_score
\* and completed_at are unset.
C7_SessionLayout ==
    Succeeded =>
        LET ids == CreatedSession.questions_ids
            k == Min(req.questions_count, Cardinality(EligibleIds))
        IN  /\ Len(ids) >= k
            /\ \A i \in 1..k : ids[i] \in EligibleIds
            /\ \A i \in 1..(k - 1) : Geq(SimilarityToPdf(ids[i]), SimilarityToPdf(ids[i + 1]))
            /\ \A i \in (k + 1)..Len(ids) : ids[i] \in NewQuestionIds
            /\ CreatedSession.questions_count = req.questions_count
            /\ CreatedSession.score = None
            /\ CreatedSession.max_score = None
            /\ CreatedSession.completed_at = None

\* C8 as stated: every question persisted from generator output has a
\* well-formed answer set: a quiz question exactly 4 answers of which exactly
\* 1 is correct, a flashcard question exactly 1 answer, marked correct.
C8_GeneratedAnswersWellFormed ==
    pc = "idle" =>
        \A q \in NewQuestionIds :
            LET answers == AnswersOf(q)
                correct == {a \in answers : db.answers[a].is_correct}
            IN  IF db.questions[q].type = "QUIZ"
                THEN Cardinality(answers) = 4 /\ Cardinality(correct) = 1
                ELSE Cardinality(answers) = 1 /\ Cardinality(correct) = 1

\* C9 as stated: every pooled question id placed in a session belongs to
\* the matched theme and has the kind of the requested session.
C9_PooledSameThemeAndKind ==
    Succeeded =>
        \A i \in 1..Len(obs.pooled) :
            /\ db.questions[obs.pooled[i]].theme_id = req.theme_id
            /\ db.questions[obs.pooled[i]].type = req.session_type

\* questions_count of the request's theme in the given tables, 0 for a theme
\* that does not exist there yet
ThemeQuestionsCount(tables) ==
    IF req.theme_id \in 1..Len(tables.themes)
    THEN tables.themes[req.theme_id].questions_count ELSE 0

\* C10 as stated: after a successful run the resolved theme's
\* questions_count has grown by exactly the number of questions newly
\* persisted in that run, and the number of Question rows has grown by
\* exactly the number of generated items used.
C10_ThemeCountTracksNewQuestions ==
    Succeeded =>
        /\ ThemeQuestionsCount(db) - ThemeQuestionsCount(obs.db0) = Cardinality(NewQuestionIds)
        /\ Cardinality(NewQuestionIds) = Len(CreatedSession.questions_ids) - Len(obs.pooled)

\* C11: when the PDF pipeline matches an existing theme, the theme's
\* times_used grows by exactly one, the session carries that theme's id, no
\* Theme is created, and every other theme is left as it was.
C11_MatchedThemeReused ==
    (Succeeded /\ req.matched) =>
        /\ Len(db.themes) = Len(obs.db0.themes)
        /\ req.theme_id \in 1..Len(obs.db0.themes)
        /\ CreatedSession.theme_id = req.theme_id
        /\ obs.db0.themes[req.theme_id].user_id = req.user_id
        /\ Geq(calculate_keyword_overlap(req.theme_data.keywords,
                                         obs.db0.themes[req.theme_id].keywords), <<2, 5>>)
        /\ db.themes[req.theme_id] =
              [obs.db0.themes[req.theme_id] EXCEPT !.times_used = @ + 1]
        /\ \A j \in 1..Len(db.themes) :
              j # req.theme_id => db.themes[j] = obs.db0.themes[j]

C11_Witness ==
    /\ Succeeded /\ req.matched
    /\ Len(db.themes) >= 2
    /\ db.themes[req.theme_id].times_used = 1

\* no theme of the requesting user that existed when the request started
\* overlaps the summarizer's keywords at 0.4
NoThemeMatches ==
    ~\E i \in 1..Len(obs.db0.themes) :
        /\ obs.db0.themes[i].user_id = req.user_id
        /\ Geq(calculate_keyword_overlap(req.theme_data.keywords,
                                         obs.db0.themes[i].keywords), <<2, 5>>)

\* the theme the summarizer describes, as a new row of the request's user
SummarizedTheme(questions_count) ==
    [id |-> Len(obs.db0.themes) + 1, user_id |-> req.user_id,
     name |-> req.theme_data.theme_name, description |-> req.theme_data.description,
     keywords |-> req.theme_data.keywords,
     questions_count |-> questions_count, times_used |-> 0,
     deleted_at |-> None]

ResolutionAttempted ==
    /\ req.theme_data # NoThemeData
    /\ pc \in {"creating", "idle"}

\* C13 as stated: resolving a theme twice for the same user with the same
\* summarizer name and keywords, the theme table unchanged in between,
\* yields the same theme id both times and creates no duplicate theme, for
\* every keyword list including an empty one.
C13_ResolutionIdempotent ==
    (/\ obs.prev # None
     /\ ResolutionAttempted
     /\ obs.prev[1].user_id = req.user_id
     /\ obs.prev[1].theme_data = req.theme_data) =>
        /\ req.theme_id = obs.prev[1].theme_id
        /\ Len(db.themes) = Len(obs.db0.themes)

\* the submitted form is complete apart from its kind and its count: a known
\* user and an uploaded file named *.pdf
OtherFieldsValid ==
    /\ obs.form[1].user_id \in Users
    /\ obs.form[1].pdf_file.present
    /\ IsPdfName(obs.form[1].pdf_file.filename)

\* the request has passed the validation
Accepted == req # ReqIdle

\* C17 as stated: the PDF session request is accepted by validation if and
\* only if its kind is one of the two session kinds (quiz, flashcard) and
\* its count N satisfies 1 <= N <= 50; a rejected request returns a
\* validation error before any extractor or LLM call and leaves the
\* persisted state unchanged; an accepted kind is one for which question
\* creation is defined.
C17_ValidationExact ==
    (obs.form # None /\ OtherFieldsValid) =>
        LET kind == Upper(obs.form[1].session_type)
            count == ParseInt(obs.form[1].questions_count)
        IN  /\ Accepted <=> (/\ kind \in SessionTypeNames
                             /\ count # None
                             /\ count[1] >= 1 /\ count[1] <= 50)
            /\ ~Accepted => (resp.status = 400 /\ obs.log = <<>> /\ db = obs.db0)
            /\ Accepted => req.session_type \in QuestionTypeNames

(***************************************************************************)
(* Properties of the session life cycle                                    *)
(***************************************************************************)
\* C14 as stated: once a session is completed, no later operation changes
\* its score, max_score or completed_at.
C14_CompletedOnce ==
    [][\A i \in 1..Len(db.sessions) :
          is_completed(db.sessions[i]) =>
              /\ i \in 1..Len(db'.sessions)
              /\ db'.sessions[i].score = db.sessions[i].score
              /\ db'.sessions[i].max_score = db.sessions[i].max_score
              /\ db'.sessions[i].completed_at = db.sessions[i].completed_at]_vars

\* C15 as stated: in every reachable state, a session that has both score
\* and max_score set satisfies score <= max_score.
C15_ScoreAtMostMaxScore ==
    \A i \in 1..Len(db.sessions) :
        (db.sessions[i].score # None /\ db.sessions[i].max_score # None) =>
            db.sessions[i].score[1] <= db.sessions[i].max_score[1]

\* the last response carries a success rate
RateReturned == "success_rate" \in DOMAIN resp

UniqueThemeNames ==
    \A i, j \in 1..Len(db.themes) :
        (i # j /\ db.themes[i].user_id = db.themes[j].user_id) =>
            db.themes[i].name # db.themes[j].name

\* every thread has answered its request
AllDone == \A p \in Procs : procs[p].pc = "done"

\* the threads whose request matched and reused theme t
Reusers(t) ==
    {p \in Procs : procs[p].status = 201 /\ procs[p].matched /\ procs[p].theme_id = t}

\* C18 as stated: under any interleaving of concurrent PDF session requests
\* no two themes of the same owner have the same name, and when k requests
\* have matched and reused a theme, its usage counter, 0 at creation, ends
\* exactly k higher.
C18_ConcurrentThemeStateSound ==
    /\ UniqueThemeNames
    /\ AllDone => \A t \in 1..Len(db.themes) :
                      db.themes[t].times_used = Cardinality(Reusers(t))

\* C19 as stated: a thread whose new theme fails on the unique constraint
\* re-runs the theme matcher exactly once and continues with the competing
\* theme; it answers with a failure only if that retry fails too.
C19_RetryAfterUniqueViolation ==
    \A p \in Procs :
        (procs[p].pc = "done" /\ procs[p].conflict) =>
            /\ procs[p].matcher_runs = 2
            /\ procs[p].status = 201

(***************************************************************************)
(* The failure responses of the PDF analysis                               *)
(***************************************************************************)

\* the prefixes the analysis service puts before the text of the exception
ErrorPrefixes == {"Error extracting PDF text: ", "Error generating questions with Groq: "}

\* the request ended in the analysis: no summary and no content was kept
FailedInAnalysis ==
    /\ Failed
    /\ resp.status = 400
    /\ "description" \in DOMAIN resp

\* C20: the response to a PDF session request that fails in extraction or
\* generation does not depend on the provider's error text: the request that
\* differs only in the message of the failing extractor or LLM call (e2
\* in place of e1) is answered with the same response.
C20_FailureResponseGeneric ==
    \A prefix \in ErrorPrefixes, e1 \in ProviderErrors, e2 \in ProviderErrors :
        (FailedInAnalysis /\ resp = error_response(400, wrap_error(prefix, e1)))
            => error_response(400, wrap_error(prefix, e2)) = resp

(***************************************************************************)
(* Properties of the functions of SimilarityService                        *)
(***************************************************************************)
Returned(op) == sim.op = op /\ sim.called

\* a float in [0, 1]
InUnitInterval(r) == Geq(r, Zero) /\ Geq(<<1, 1>>, r)

\* C21: for all keyword lists A and B, keyword_overlap(A, B) lies in [0, 1],
\* and keyword_overlap(A, A) is 1.0 for every non-empty A.
C21_OverlapInUnitInterval ==
    Returned("calculate_keyword_overlap") =>
        /\ InUnitInterval(sim.result)
        /\ (sim.args[1] = sim.args[2] /\ sim.args[1] # <<>>) => sim.result = <<1, 1>>

\* the overlap of a list that repeats a keyword, with itself
C21_Witness ==
    /\ Returned("calculate_keyword_overlap")
    /\ sim.args[1] = sim.args[2]
    /\ sim.args[1] = <<"python", " Python", "flask">>
    /\ sim.result = <<1, 1>>

\* C22: keyword_overlap([], X) is 0.0 for any list X and text_similarity("", X)
\* is 0.0 for any text X; both functions return a float for every input,
\* empty strings, empty lists and non-ASCII text included.
C22_EmptyInputsGiveZero ==
    /\ Returned("calculate_keyword_overlap") =>
          /\ sim.result \in (0..MaxSimKw) \X (1..MaxSimKw)
          /\ sim.args[1] = <<>> => sim.result = Zero
    /\ Returned("calculate_text_similarity") =>
          /\ sim.result \in (0..2 * MaxSimPairText) \X (1..4 * MaxSimPairText)
          /\ sim.args[1] = <<>> => sim.result = Zero

\* the similarity of the empty text and the empty text
C22_Witness ==
    /\ Returned("calculate_text_similarity")
    /\ sim.args[1] = <<>>
    /\ sim.args[2] = <<>>
    /\ sim.result = Zero

\* C23: for all texts A and B, text_similarity(A, B) equals
\* text_similarity(B, A), and text_similarity(A, A) is 1.0 whenever A yields a
\* non-empty keyword set.
C23_SimilaritySymmetric ==
    Returned("calculate_text_similarity") =>
        /\ sim.result = calculate_text_similarity(sim.args[2], sim.args[1])
        /\ (sim.args[1] = sim.args[2] /\ extract_keywords(sim.args[1], 30) # <<>>)
              => sim.result = <<1, 1>>

\* two texts with keyword sets of different sizes that share a keyword
C23_Witness ==
    /\ Returned("calculate_text_similarity")
    /\ sim.args[1] = <<"Flask">>
    /\ sim.args[2] = <<"flask", "École">>
    /\ sim.result = <<1, 2>>

\* the tokens of a text: lowercased, split at whitespace and at every
\* character that is neither a letter nor a digit
Tokens(text) == Flatten([i \in 1..Len(text) |-> Tokenize(text[i])])

\* C24: no keyword returned by the keyword extractor is a member of the
\* stop-word set or has length <= 2; a text made only of stop words and short
\* tokens yields the empty keyword sequence.
C24_NoStopWordKeywords ==
    Returned("extract_keywords") =>
        /\ \A i \in 1..Len(sim.result) :
              sim.result[i] \notin STOP_WORDS /\ TokenLen(sim.result[i]) > 2
        /\ (\A w \in Range(Tokens(sim.args[1])) : w \in STOP_WORDS \/ TokenLen(w) <= 2)
              => sim.result = <<>>

\* position of the first occurrence of w in words
FirstIndex(words, w) == CHOOSE i \in 1..Len(words) : words[i] = w /\ \A j \in 1..(i - 1) : words[j] # w

\* C25: extract(text, top_n) returns at most top_n distinct keywords, ordered
\* by descending frequency in the preprocessed text, and keywords of equal
\* frequency appear in the order of their first occurrence in the text.
C25_KeywordsRankedByFrequency ==
    Returned("extract_keywords") =>
        LET words == preprocess_text(sim.args[1])
            result == sim.result
        IN  /\ Len(result) <= sim.args[2]
            /\ Range(result) \subseteq Range(words)
            /\ \A i \in 1..Len(result), j \in 1..Len(result) :
                  i < j => /\ result[i] # result[j]
                           /\ Count(words, result[i]) >= Count(words, result[j])
                           /\ Count(words, result[i]) = Count(words, result[j])
                                 => FirstIndex(words, result[i]) < FirstIndex(words, result[j])

\* the word met second is the more frequent one
C25_Witness ==
    /\ Returned("extract_keywords")
    /\ sim.args = <<<<"flask", "api", "api">>, 2>>
    /\ sim.result = <<"api", "flask">>

\* the lowercased, stripped keywords of a list, as a set
Normalised(keywords) == {LowerStrip(k) : k \in Range(keywords)}

C27_ThemeKeywordsNormalised ==
    \A t \in 1..Len(db.themes) :
        /\ db.themes[t].keywords # <<>>
        /\ \A k \in Range(db.themes[t].keywords) : k = LowerStrip(k)

\* C28: every Session is created with questions_count equal to the length
\* of its questions_ids list, on every creation path; no operation changes
\* either field afterwards, so every stored session has the two equal.
C28_QuestionsCountIsLength ==
    \A i \in 1..Len(db.sessions) :
        db.sessions[i].questions_count = Len(db.sessions[i].questions_ids)

\* a session made by a service method out of one sampled question
C28_Witness ==
    /\ "error" \in DOMAIN resp
    /\ resp.session # None
    /\ resp.session[1].questions_count = 1
    /\ db.sessions[resp.session[1].id] = resp.session[1]

\* the positions of the session's question list whose question is stored, has
\* a correct answer, and was given that answer
CorrectlyAnswered(session, answers) ==
    {i \in 1..Len(session.questions_ids) :
        LET question_id == session.questions_ids[i]
        IN  /\ get(db.questions, question_id) # None
            /\ \E a \in 1..Len(db.answers) :
                  /\ db.answers[a].question_id = question_id
                  /\ db.answers[a].is_correct
                  /\ \A b \in 1..(a - 1) :
                        ~(db.answers[b].question_id = question_id /\ db.answers[b].is_correct)
                  /\ question_id \in DOMAIN answers
                  /\ answers[question_id] = db.answers[a].id}

\* C29: submit_quiz on a session that is already completed, or that is not of
\* quiz kind, returns an error and changes nothing (the sessions and the
\* questions' times_used/times_correct are as before); on an in-progress quiz
\* session it completes the session with max_score = len(questions_ids) and
\* score = number of correctly answered questions, so score <= max_score.
C29_SubmitQuizGuarded ==
    [][\A session_id \in 1..Len(db.sessions), answers \in AnswerSheets :
          submit_quiz(session_id, answers) =>
              LET session == db.sessions[session_id]
              IN  IF is_completed(session) \/ session.type # "QUIZ"
                  THEN /\ db' = db
                       /\ resp'.status # 200
                       /\ resp'.session = None
                  ELSE /\ resp'.status = 200
                       /\ db'.sessions[session_id].completed_at # None
                       /\ db'.sessions[session_id].max_score = <<Len(session.questions_ids)>>
                       /\ db'.sessions[session_id].score
                             = <<Cardinality(CorrectlyAnswered(session, answers))>>
                       /\ db'.sessions[session_id].score[1]
                             <= db'.sessions[session_id].max_score[1]]_vars

\* a quiz of one question, submitted with the correct answer
C29_Witness ==
    /\ resp.status = 200
    /\ resp.session # None
    /\ resp.session[1].type = "QUIZ"
    /\ resp.session[1].score = <<1>>
    /\ resp.session[1].max_score = <<1>>
    /\ \E q \in 1..Len(db.questions) :
          db.questions[q].times_used = 1 /\ db.questions[q].times_correct = 1

(***************************************************************************)
(* Properties of soft deletion                                             *)
(***************************************************************************)
SoftDeleted(row) == row.deleted_at # None

\* C30: after an entity has been soft-deleted, storage.get and
\* storage.filter_by never return it; a theme that was soft-deleted when a PDF
\* request started is not matched or reused by it, and a question that was
\* soft-deleted then is not pooled into its session.
C30_SoftDeletedNeverReturned ==
    /\ \A t \in 1..Len(db.themes) :
          SoftDeleted(db.themes[t]) =>
              /\ get(db.themes, t) = None
              /\ db.themes[t] \notin Range(filter_by_user(db, db.themes[t].user_id))
    /\ \A q \in 1..Len(db.questions) :
          SoftDeleted(db.questions[q]) =>
              /\ get(db.questions, q) = None
              /\ db.questions[q] \notin Range(filter_by_theme(db, db.questions[q].theme_id))
    /\ \A t \in 1..Len(obs.db0.themes) :
          SoftDeleted(obs.db0.themes[t]) => ~(req.matched /\ req.theme_id = t)
    /\ \A q \in 1..Len(obs.db0.questions) :
          SoftDeleted(obs.db0.questions[q]) =>
              /\ q \notin Range(obs.pooled)
              /\ Succeeded => q \notin Range(CreatedSession.questions_ids)

\* a request whose keywords overlap those of a soft-deleted theme of the
\* user: it makes a theme of its own
C30_Witness ==
    /\ pc = "creating"
    /\ ~req.matched
    /\ \E t \in 1..Len(obs.db0.themes) :
          /\ SoftDeleted(obs.db0.themes[t])
          /\ obs.db0.themes[t].user_id = req.user_id
          /\ Geq(calculate_keyword_overlap(req.theme_data.keywords,
                                           obs.db0.themes[t].keywords), <<2, 5>>)

====
